---- MODULE Spec2Model ----
(***************************************************************************)
(* Model of the pantry scanner (cmd/scanner/scanner.go): the discovery     *)
(* loop of Scanner.Start, its resolver and fetch goroutines, the store     *)
(* (tables mods and utils) and extractContent.                             *)
(*                                                                         *)
(* Time is counted in ticks; TicksPerSec ticks make one second, so that    *)
(* time.Format(time.RFC3339), which drops the fraction of a second, is a   *)
(* real conversion.  The zero time.Time is tick 0.                         *)
(*                                                                         *)
(* The numeric constants of the program (page limit 500, maxModules        *)
(* 10000, channel capacity 100) are scaled down to values TLC can          *)
(* enumerate; they are named after the source.                             *)
(***************************************************************************)
EXTENDS Integers, Sequences, FiniteSets, TLC

\* ---------------------------------------------------------------- bounds
modIndexLimit == 2      \* scanner.go:43 (500), scaled
maxModules == 2         \* scanner.go:83 (10000), scaled
ChanCap == 1            \* scanner.go:58-59 (100), scaled
TicksPerSec == 2        \* sub-second resolution of a feed timestamp
MaxTs == 2              \* largest feed timestamp, in ticks
MaxEntries == 2         \* entries of an archive given to extractContent
MaxCounter == 3         \* counter stops being incremented here
MaxReqs == 3            \* requests the server handles at a time

\* ---------------------------------------------------------------- values
\* A module path is a sequence of characters; '_' and '%' are the LIKE
\* wildcards of the store's SQL dialect.
PathU == <<"a", "_">>
PathB == <<"a", "b">>
Paths == {PathU, PathB}
\* A third path, which only the feed of the fair scenario lists.
PathC == <<"c", "d">>
AllPaths == Paths \cup {PathC}
FeedVersions == {"v1"}
Versions == {"v1", "v2"}
NoVersion == ""

Min(a, b) == IF a <= b THEN a ELSE b

\* time.Time.Format(time.RFC3339): whole seconds only.
Format(t) == t \div TicksPerSec
\* time.Parse(time.RFC3339, str) of a string Format produced.
Parse(s) == s * TicksPerSec
\* A string is written as the whole seconds it stands for; NotATime is a
\* string that time.Parse rejects.
NotATime == -1
Parses(str) == str >= 0

\* ------------------------------------------------------------ SQL LIKE
\* s LIKE pat: '_' matches any one character, '%' any run of characters.
RECURSIVE Like(_, _)
Like(s, pat) ==
    IF pat = <<>> THEN s = <<>>
    ELSE IF Head(pat) = "%"
         THEN \E k \in 0..Len(s) : Like(SubSeq(s, k + 1, Len(s)), Tail(pat))
    ELSE IF s = <<>> THEN FALSE
    ELSE (Head(pat) = "_" \/ Head(pat) = Head(s)) /\ Like(Tail(s), Tail(pat))

\* ------------------------------------------------------ extractContent
\* A file name is a sequence of path components; a component is a sequence
\* of tokens (so that the README pattern has something to match on).
\* Bytes are numbers: 104 is 'h', 10 is '\n', 255 is never valid UTF-8.
NL == 10
DotDot == <<"..">>
ScratchDir == << <<"scratch">> >>
TmpDir == ScratchDir \o << <<"mod-1">> >>

Names ==
    { << <<"README">> >>,
      << <<"d">>, <<"readme", ".MD">> >>,
      << <<"x", "Readme", ".txt">> >>,
      << <<"readme", ".go">> >>,
      << <<"d">> >>,
      << DotDot, DotDot, <<"etc">> >>,
      << DotDot, <<"README">> >>,
      << <<"d">>, DotDot >> }

Entries ==
    [name : Names, dir : {FALSE}, content : {<<104>>, <<255>>},
     fault : {"none", "copy"}]
    \cup [name : {<< <<"d">> >>, << <<"d">>, DotDot >>}, dir : {TRUE},
          content : {<<>>}, fault : {"none"}]
    \cup [name : {<< <<"README">> >>}, dir : {FALSE}, content : {<<104>>},
          fault : {"open"}]

Archives == UNION {[1..n -> Entries] : n \in 0..MaxEntries}

\* strings.ToLower on a token (the (?i) flag of readmeRegex).
Lower(tok) ==
    CASE tok = "README" -> "readme"
      [] tok = "Readme" -> "readme"
      [] tok = ".MD" -> ".md"
      [] tok = ".TXT" -> ".txt"
      [] OTHER -> tok

EndsWith(s, suf) ==
    Len(s) >= Len(suf) /\ SubSeq(s, Len(s) - Len(suf) + 1, Len(s)) = suf

\* readmeRegex.MatchString(file.Name): (?i)readme(\.md|\.txt)?$
readmeRegex(name) ==
    /\ name # <<>>
    /\ LET last == name[Len(name)]
           low == [i \in 1..Len(last) |-> Lower(last[i])]
       IN  \/ EndsWith(low, <<"readme">>)
           \/ EndsWith(low, <<"readme", ".md">>)
           \/ EndsWith(low, <<"readme", ".txt">>)

\* utf8.Valid, on byte strings made of ASCII bytes and 0xFF.
utf8Valid(b) == \A i \in 1..Len(b) : b[i] < 128

\* filepath.Join(base, name): the components of name applied to the clean
\* absolute path base; ".." pops (the root has no parent), "" and "." vanish.
RECURSIVE JoinClean(_, _)
JoinClean(base, name) ==
    IF name = <<>> THEN base
    ELSE LET c == Head(name)
         IN  IF c = DotDot
             THEN JoinClean(IF base = <<>> THEN <<>>
                            ELSE SubSeq(base, 1, Len(base) - 1), Tail(name))
             ELSE IF c = <<>> \/ c = <<".">>
             THEN JoinClean(base, Tail(name))
             ELSE JoinClean(Append(base, c), Tail(name))

\* filepath.Dir of a clean absolute path.
Dir(path) == IF path = <<>> THEN <<>> ELSE SubSeq(path, 1, Len(path) - 1)

\* strings.HasPrefix(path, filepath.Clean(tmpDir)+"/"): path lies strictly
\* below dir.
HasPrefixNoSeparator(path, dir) ==
    Len(path) >= Len(dir) /\ SubSeq(path, 1, Len(dir)) = dir
HasDirPrefix(path, dir) ==
    Len(path) > Len(dir) /\ SubSeq(path, 1, Len(dir)) = dir

\* os.MkdirAll(path) on a file system fs = [dirs, files]: fails when a
\* component on the way is a file; the directories above it stay created.
Prefixes(path) == {SubSeq(path, 1, k) : k \in 1..Len(path)}
MkdirAll(fs, path) ==
    LET blocked == {q \in Prefixes(path) : q \in fs.files}
        made == {q \in Prefixes(path) :
                    \A b \in blocked : Len(q) < Len(b)}
    IN  [ok |-> blocked = {},
         fs |-> [fs EXCEPT !.dirs = @ \cup made],
         made |-> made \ fs.dirs]

\* io.Copy(dstFile, rc) reads rc to its end; rc is left at end of file.
ioCopy(content) == [written |-> content, pos |-> Len(content)]
\* io.ReadAll(rc) on a reader that has already delivered pos bytes.
ioReadAll(content, pos) == SubSeq(content, pos + 1, Len(content))

\* State of one extractContent call: the file system under /, every path
\* it created or wrote (writes), the README builder and one outcome per
\* archive entry handled so far (log).
ExtractInit ==
    [fs |-> [dirs |-> Prefixes(TmpDir), files |-> {}],
     writes |-> {}, readme |-> <<>>, log |-> <<>>]

\* One iteration of "for _, file := range reader.File".
ExtractEntry(st, e) ==
    LET path == JoinClean(TmpDir, e.name)
        Out(s, what) == [s EXCEPT !.log = Append(@, what)]
    IN
    IF ~HasDirPrefix(path, TmpDir) THEN Out(st, "invalid")
    ELSE
    LET mk == MkdirAll(st.fs, IF e.dir THEN path ELSE Dir(path))
        s1 == [st EXCEPT !.fs = mk.fs, !.writes = @ \cup mk.made]
    IN
    IF ~mk.ok THEN Out(s1, "mkdir_failed")
    ELSE IF e.fault = "open" THEN Out(s1, "open_failed")
    ELSE IF path \in s1.fs.dirs THEN Out(s1, "create_failed")
    ELSE
    LET s2 == [s1 EXCEPT !.fs.files = @ \cup {path},
                         !.writes = @ \cup {path}]
        cp == ioCopy(e.content)
    IN
    IF e.fault = "copy" THEN Out(s2, "copy_failed")
    ELSE IF ~readmeRegex(e.name) THEN Out(s2, "written")
    ELSE
    LET content == ioReadAll(e.content, cp.pos)
    IN
    IF ~utf8Valid(content) THEN Out(s2, "not_utf8")
    ELSE Out([s2 EXCEPT !.readme = @ \o content \o <<NL>>], "readme")

RECURSIVE ExtractFrom(_, _)
ExtractFrom(st, archive) ==
    IF archive = <<>> THEN st
    ELSE ExtractFrom(ExtractEntry(st, Head(archive)), Tail(archive))

\* extractContent(data) for data that zip.NewReader accepts and with the
\* job's directory created: its loop over reader.File.  The README text it
\* returns is the readme field of the result.
extractContent(archive) == ExtractFrom(ExtractInit, archive)

\* ------------------------------------------------------------ the store
\* Table mods is a set of rows [id, path, version, readme, time]; table
\* utils is a set of rows [key, value], value being an RFC3339 string,
\* here its number of whole seconds.

\* Variants of the upsert: a plain INSERT, ON CONFLICT DO NOTHING, and a
\* DELETE of the table before the INSERT.
ReplaceMods(rows, m, id) ==
    {[id |-> id, path |-> m.path, version |-> m.version,
      readme |-> m.readme, time |-> m.time]}
InsertMod(rows, m, id) ==
    rows \cup {[id |-> id, path |-> m.path, version |-> m.version,
                readme |-> m.readme, time |-> m.time]}
InsertModOnce(rows, m, id) ==
    IF \E r \in rows : r.path = m.path THEN rows ELSE InsertMod(rows, m, id)

\* INSERT INTO mods (path, version, readme, time) VALUES ($1..$4)
\* ON CONFLICT (path) DO UPDATE SET version = $2, readme = $3, time = $4
\* WHERE excluded.path LIKE $1   -- m is the Module, id a fresh row id
UpsertMod(rows, m, id) ==
    IF \E r \in rows : r.path = m.path
    THEN {IF r.path = m.path /\ Like(m.path, m.path)
          THEN [r EXCEPT !.version = m.version, !.readme = m.readme,
                         !.time = m.time]
          ELSE r : r \in rows}
    ELSE rows \cup {[id |-> id, path |-> m.path, version |-> m.version,
                     readme |-> m.readme, time |-> m.time]}

\* INSERT INTO utils (key, value) VALUES ('since', $1) ON CONFLICT (key)
\* DO UPDATE SET value = $1 WHERE excluded.key LIKE 'since'
UpsertSince(rows, value) ==
    IF \E r \in rows : r.key = "since"
    THEN {IF r.key = "since" THEN [r EXCEPT !.value = value] ELSE r :
             r \in rows}
    ELSE rows \cup {[key |-> "since", value |-> value]}

\* SELECT version FROM mods WHERE path LIKE $1, first row scanned: the
\* versions latestSeenVersion can return when the query succeeds.
SelectVersionLike(rows, path) ==
    LET hit == {r \in rows : Like(r.path, path)}
    IN  IF hit = {} THEN {NoVersion} ELSE {r.version : r \in hit}

\* latestSeenVersion(path, conn); readOk = FALSE is a failed query, on
\* which it returns "" as it does when no row is found.
VersionLeftOver(rows, path, readOk) ==
    IF readOk THEN SelectVersionLike(rows, path) ELSE Versions
latestSeenVersion(rows, path, readOk) ==
    IF readOk THEN SelectVersionLike(rows, path) ELSE {NoVersion}

\* getMostRecentFetchTime(): the cursor a run starts from.  The zero time
\* when the query fails (readOk = FALSE), when there is no row and when
\* the value of the row does not parse.
ZeroTime(rows, readOk) == {0}
getMostRecentFetchTime(rows, readOk) ==
    LET hit == {r \in rows : r.key = "since"}
    IN  IF ~readOk \/ hit = {} THEN {0}
        ELSE {IF Parses(r.value) THEN Parse(r.value) ELSE 0 : r \in hit}

\* ------------------------------------------------------------- the feed
\* A line of a feed response: an index entry, a line that does not parse,
\* or an empty line.
\* P is the set of paths the feed lists.
EntryLines(P) ==
    [kind : {"entry"}, path : P, version : FeedVersions, ts : 1..MaxTs]
LineSet(P) == EntryLines(P) \cup {[kind |-> "bad"], [kind |-> "blank"]}
MaxLines == modIndexLimit + 1

\* The response to ?since=<url>&limit=modIndexLimit is a sequence of 1 to
\* MaxLines lines holding at most limit records, whose entries are none
\* older than the (whole-second) since of the request and come in
\* non-decreasing timestamp order.  The body is fixed when the response
\* arrives; the model draws each line when the line loop reaches it, which
\* gives the same runs.  floor is the least timestamp the next entry can
\* have, records the number of non-empty lines drawn so far.
LinesAfter(P, floor, records) ==
    {l \in LineSet(P) :
        /\ l.kind # "blank" => records < modIndexLimit
        /\ l.kind = "entry" => l.ts >= floor}

\* The largest timestamp the lines not yet drawn can hold (0: no entry).
RestMax(floor, records) ==
    {0} \cup {t \in 1..MaxTs : t >= floor /\ records < modIndexLimit}

\* Archives the proxy serves in the pipeline runs.
EReadme == [name |-> << <<"README">> >>, dir |-> FALSE, content |-> <<104>>,
            fault |-> "none"]
ESlip == [name |-> << DotDot, DotDot, <<"etc">> >>, dir |-> FALSE,
          content |-> <<104>>, fault |-> "none"]
EBroken == [name |-> << <<"d">>, <<"readme", ".MD">> >>, dir |-> FALSE,
            content |-> <<255>>, fault |-> "copy"]
\* The proxy is immutable: a version of a module has one archive and one
\* commit time.
ArchiveOf(path, version) ==
    CASE path = PathU /\ version = "v1" -> <<EReadme>>
      [] path = PathU /\ version = "v2" -> <<ESlip, EReadme, EReadme>>
      [] path = PathB /\ version = "v1" -> <<EBroken>>
      [] OTHER -> <<EReadme>>
TimeOf(version) == IF version = "v1" THEN 1 ELSE 2
\* The answers of .../@latest that parse.
Infos == {[version |-> v, time |-> TimeOf(v)] : v \in Versions}

\* ------------------------------------------------------- license policy
\* The license-classification collaborator returns a mapping of license
\* identifier to confidence in [0,1]; confidences are in hundredths here.
LicenseIds == {"MIT", "Apache-2.0", "GPL-3.0"}
Confidences == {50, 89, 90, 91, 95}
ConfMaps == UNION {[D -> Confidences] : D \in SUBSET LicenseIds}
Threshold == 90
NoLicense == [primary |-> "", set |-> {}]

\* Only identifiers with confidence >= 0.90 are accepted.
AcceptedAbove(conf) == {id \in DOMAIN conf : conf[id] > Threshold}
Accepted(conf) == {id \in DOMAIN conf : conf[id] >= Threshold}

\* The primary license: the accepted identifier whose confidence is
\* strictly the highest; none when nothing is accepted.  Which one it is
\* when several accepted identifiers share the highest confidence is not
\* laid down: any of them, or none.
Primaries(conf) ==
    LET acc == Accepted(conf)
        top == {id \in acc : \A o \in acc : conf[id] >= conf[o]}
    IN  IF Cardinality(top) = 1 THEN top ELSE top \cup {""}

\* The license metadata the policy yields for a classification.
LicensePolicy(conf) ==
    {[primary |-> p, set |-> Accepted(conf)] : p \in Primaries(conf)}

\* ---------------------------------------------------------------- state
VARIABLES
    pc,             \* main goroutine: stopped, loop, lines, blocked, ckpt,
                    \* returned
    since,          \* the cursor (ticks)
    nLines,         \* len(lines) of the current page
    idx,            \* lines of the current page the loop has taken
    emptyLines,
    batchMax,       \* largest entry timestamp of the current page (0: none)
    counter,
    modPaths,       \* chan string
    toFetch,        \* chan *Module
    seen,           \* resolver: map[string]bool
    rPc,            \* resolver goroutine: recv, send
    rMod,           \* the Module the resolver is sending
    fPc,            \* fetch goroutine: recv, count
    fMod,           \* the Module the fetch goroutine has written
    mods,           \* table mods
    utils,          \* table utils
    scratchExists,  \* s.scratchDir exists on disk
    lookups,        \* per path: getLatestModInfo calls of this run
    storeReads,     \* per path: latestSeenVersion calls of this run
    ev,             \* the last operation and what it did
    xArchive,       \* extractContent: reader.File
    xIdx,           \* extractContent: entries handled so far
    xSt,            \* extractContent: state (see ExtractInit)
    confidences,    \* license classification: identifier -> confidence
    license,        \* license metadata: primary license and license set
    srvPc,          \* server process: stopped, NewServer, main, serving
    srvDb,          \* Server.db: none, open, closed
    reqs            \* per handler goroutine: pc, path, status

mainVars == <<pc, since, nLines, idx, emptyLines, batchMax>>
chanVars == <<modPaths, toFetch>>
resVars == <<seen, rPc, rMod, lookups, storeReads>>
fetchVars == <<fPc, fMod>>
storeVars == <<mods, utils>>
xVars == <<xArchive, xIdx, xSt>>
licVars == <<confidences, license>>
srvVars == <<srvPc, srvDb, reqs>>
vars == <<pc, since, nLines, idx, emptyLines, batchMax, counter, modPaths,
          toFetch, seen, rPc, rMod, fPc, fMod, mods, utils, scratchExists,
          lookups, storeReads, ev, xArchive, xIdx, xSt, confidences,
          license, srvPc, srvDb, reqs>>

\* The handler goroutines of the server: none has a request.
Reqs == 1..MaxReqs
NoReq == [pc |-> "idle", path |-> <<>>, status |-> 0]
NoServer == srvPc = "stopped" /\ srvDb = "none" /\ reqs = [i \in Reqs |-> NoReq]

NoMod == [path |-> <<>>, version |-> NoVersion, time |-> 0]

\* No scanner process is running: empty store, nothing on disk.
Init ==
    /\ pc = "stopped"
    /\ since = 0 /\ nLines = 0 /\ idx = 0 /\ emptyLines = 0 /\ batchMax = 0
    /\ counter = 0 /\ modPaths = <<>> /\ toFetch = <<>>
    /\ seen = {} /\ rPc = "recv" /\ rMod = NoMod
    /\ fPc = "recv" /\ fMod = NoMod
    /\ lookups = [p \in AllPaths |-> 0]
    /\ storeReads = [p \in AllPaths |-> 0]
    /\ mods = {} /\ utils = {}
    /\ scratchExists = FALSE
    /\ ev = [op |-> "init"]
    /\ xArchive = <<>> /\ xIdx = 0 /\ xSt = ExtractInit
    /\ confidences = <<>> /\ license = NoLicense
    /\ NoServer

\* The goroutines run from Start until the process exits.
Alive == pc # "stopped"

\* A send on a buffered channel (make(chan T, 100)) proceeds while the
\* buffer has room and blocks while it is full.
HasRoomFor(ch, cap) == Len(ch) < cap
AlwaysRoom(ch) == TRUE
HasRoom(ch) == HasRoomFor(ch, ChanCap)

\* A receive ("for x := range ch") takes the item that has been in the
\* buffer the longest and leaves the others in their order.
RecvNewest(ch) == [item |-> ch[Len(ch)], rest |-> SubSeq(ch, 1, Len(ch) - 1)]
Recv(ch) == [item |-> Head(ch), rest |-> Tail(ch)]

\* Store connections.  NewScanner opens s.db, which the discovery loop uses
\* and Start's deferred s.db.Close closes; each worker opens its own with
\* initDB() when it starts and closes it when its loop ends, which is not
\* before the process exits.  A statement on a closed connection fails.
SharedConn == "s.db"
MainConn == "s.db"
ResolverConn == "resolver.conn"
FetchConn == "fetch.conn"
ConnOpen(c) ==
    IF c = "s.db" THEN pc \in {"loop", "lines", "blocked", "ckpt"} ELSE Alive
\* The outcomes a statement on connection c can have.
Outcomes(c) == {ok \in BOOLEAN : ok => ConnOpen(c)}

\* "counter" is written by the fetch goroutine (counter++) and read by the
\* discovery loop with no synchronisation between the two: a read yields
\* the current value or an earlier one.
CounterReads == 0..counter
\* The next step of the discovery loop reads counter ("for counter <
\* maxModules", "if counter >= maxModules"); the next step of the fetch
\* goroutine writes it ("counter++").  Neither step waits for the other.
MainReadsCounter == Alive /\ pc \in {"loop", "lines"}
FetchWritesCounter == Alive /\ fPc = "count"

\* -------------------------------------------------------- Scanner.Start
\* A scanner process is started (against the store as the last one left
\* it).  Start up to the discovery loop: create the scratch directory,
\* start the workers, read the cursor.
Start ==
    /\ pc = "stopped"
    /\ \E readOk \in BOOLEAN :
       \E t \in getMostRecentFetchTime(utils, readOk) :
          /\ since' = t
          /\ ev' = [op |-> "start", ok |-> readOk, conn |-> MainConn]
    /\ scratchExists' = TRUE
    /\ pc' = "loop"
    /\ UNCHANGED <<nLines, idx, emptyLines, batchMax, counter, chanVars,
                   resVars, fetchVars, storeVars, xVars, licVars, srvVars>>

\* "for counter < maxModules" is false: Start returns, and its deferred
\* RemoveAll(s.scratchDir) and s.db.Close run.
StopAtMax ==
    /\ pc = "loop"
    /\ \E c \in CounterReads : c >= maxModules
    /\ pc' = "returned"
    /\ scratchExists' = FALSE
    /\ ev' = [op |-> "return"]
    /\ UNCHANGED <<since, nLines, idx, emptyLines, batchMax, counter,
                   chanVars, resVars, fetchVars, storeVars, xVars, licVars,
                   srvVars>>

\* The memory of the process is gone.
ProcessGone ==
    /\ pc' = "stopped"
    /\ since' = 0 /\ nLines' = 0 /\ idx' = 0 /\ emptyLines' = 0
    /\ batchMax' = 0 /\ counter' = 0 /\ modPaths' = <<>> /\ toFetch' = <<>>
    /\ seen' = {} /\ rPc' = "recv" /\ rMod' = NoMod
    /\ fPc' = "recv" /\ fMod' = NoMod
    /\ lookups' = [p \in AllPaths |-> 0]
    /\ storeReads' = [p \in AllPaths |-> 0]

\* A failure that is logged, the loop going on to the end of the batch.
LogAndGoOn ==
    /\ pc' = "ckpt"
    /\ UNCHANGED <<since, nLines, idx, emptyLines, batchMax, counter,
                   modPaths, toFetch, seen, rPc, rMod, fPc, fMod, lookups,
                   storeReads>>
\* log.Fatalf: the message, then os.Exit(1).
Fatalf == ProcessGone

\* The page request fails (transport, status, body): log.Fatalf.
FetchFail ==
    /\ pc = "loop"
    /\ \E c \in CounterReads : c < maxModules
    /\ Fatalf
    /\ ev' = [op |-> "fatal"]
    /\ UNCHANGED <<storeVars, scratchExists, xVars, licVars, srvVars>>

\* The page request succeeds; lines = bytes.Split(data, "\n").
FetchPage ==
    /\ pc = "loop"
    /\ \E c \in CounterReads : c < maxModules
    /\ nLines' \in 1..MaxLines
    /\ idx' = 0
    /\ emptyLines' = 0
    /\ batchMax' = 0
    /\ pc' = "lines"
    /\ ev' = [op |-> "page"]
    /\ UNCHANGED <<since, counter, chanVars, resVars, fetchVars, storeVars,
                   scratchExists, xVars, licVars, srvVars>>

\* "since = entry.Timestamp"
SinceKept(old, ts) == old
SinceNextSecond(old, ts) == Parse(Format(ts) + 1)
SinceAfter(old, ts) == ts

\* The least timestamp the next entry of the page can have: that of the
\* entry before it, or the since of the request (whole seconds).
Floor == IF batchMax > 0 THEN batchMax ELSE Parse(Format(since))

\* Where the loop is after the line it is at: at the next line, or past
\* the last one.
AfterLine == IF idx + 1 = nLines THEN "ckpt" ELSE "lines"

\* "s.modPaths <- entry.Path; since = entry.Timestamp" and the end of the
\* iteration.
Enqueued(line) ==
    /\ modPaths' = Append(modPaths, line.path)
    /\ since' = SinceAfter(since, line.ts)
    /\ batchMax' = line.ts
    /\ idx' = idx + 1
    /\ pc' = AfterLine
    /\ ev' = [op |-> "line", kind |-> "entry", path |-> line.path]
    /\ UNCHANGED emptyLines

\* A line that does not unmarshal: "log.Printf(...); continue".
StopBatch ==
    /\ pc' = "ckpt"
    /\ UNCHANGED <<idx, emptyLines, since, modPaths, batchMax>>
OnBadLine ==
    /\ idx' = idx + 1
    /\ pc' = AfterLine
    /\ UNCHANGED <<emptyLines, since, modPaths, batchMax>>

\* One iteration of "for _, line := range lines".  The send of an entry's
\* path on a full channel blocks: the loop then waits in the send, past
\* its check of counter.  P is the set of paths the feed lists.
LineOver(P) ==
    /\ pc = "lines"
    /\ \E c \in CounterReads :
           IF c >= maxModules
           THEN /\ pc' = "ckpt"
                /\ batchMax' \in {batchMax} \cup
                      {t \in RestMax(Floor, idx - emptyLines) : t >= batchMax}
                /\ ev' = [op |-> "break"]
                /\ UNCHANGED <<idx, emptyLines, since, modPaths>>
           ELSE \E line \in LinesAfter(P, Floor, idx - emptyLines) :
                IF line.kind = "blank"
                THEN /\ emptyLines' = emptyLines + 1
                     /\ idx' = idx + 1
                     /\ pc' = AfterLine
                     /\ ev' = [op |-> "line", kind |-> "blank"]
                     /\ UNCHANGED <<since, modPaths, batchMax>>
                ELSE IF line.kind = "bad"
                THEN /\ OnBadLine
                     /\ ev' = [op |-> "line", kind |-> "bad"]
                ELSE IF HasRoom(modPaths)
                THEN Enqueued(line)
                ELSE /\ pc' = "blocked"
                     /\ ev' = [op |-> "blocked"]
                     /\ UNCHANGED <<idx, emptyLines, since, modPaths,
                                    batchMax>>
    /\ UNCHANGED <<nLines, counter, toFetch, resVars, fetchVars, storeVars,
                   scratchExists, xVars, licVars, srvVars>>

\* The blocked send goes through once the resolver has taken a path.  The
\* line was read before the wait; what it holds shows here.
UnblockOver(P) ==
    /\ pc = "blocked"
    /\ HasRoom(modPaths)
    /\ \E line \in LinesAfter(P, Floor, idx - emptyLines) :
          /\ line.kind = "entry"
          /\ Enqueued(line)
    /\ UNCHANGED <<nLines, counter, toFetch, resVars, fetchVars, storeVars,
                   scratchExists, xVars, licVars, srvVars>>

Line == LineOver(Paths)
Unblock == UnblockOver(Paths)

\* The value written to the 'since' row.
CheckpointValue(cursor) == Format(cursor)

\* The stop decision after the checkpoint write, whose error (ok = FALSE)
\* is only logged: "if (len(lines) - emptyLines) < modIndexLimit { break }".
StopOnWriteError(ok, records) == ~ok \/ records < modIndexLimit
ShortBatch(ok, records) == records < modIndexLimit

\* After the line loop: write the cursor (a failure is only logged), then
\* stop on a short page; Start returns as in StopAtMax.  The page and its
\* counts go out of scope with the iteration.
Checkpoint ==
    /\ pc = "ckpt"
    /\ \E ok \in Outcomes(MainConn) :
          /\ utils' = IF ok THEN UpsertSince(utils, CheckpointValue(since))
                      ELSE utils
          /\ ev' = [op |-> "ckpt", ok |-> ok, batchMax |-> batchMax,
                    cut |-> idx < nLines, conn |-> MainConn]
          /\ IF ShortBatch(ok, nLines - emptyLines)
             THEN /\ pc' = "returned"
                  /\ scratchExists' = FALSE
             ELSE /\ pc' = "loop"
                  /\ UNCHANGED scratchExists
    /\ nLines' = 0 /\ idx' = 0 /\ emptyLines' = 0 /\ batchMax' = 0
    /\ UNCHANGED <<since, counter, chanVars, resVars, fetchVars, mods,
                   xVars, licVars, srvVars>>

\* main: os.Exit(0) after Start has returned.
Exit ==
    /\ pc = "returned"
    /\ ProcessGone
    /\ ev' = [op |-> "exit"]
    /\ UNCHANGED <<storeVars, scratchExists, xVars, licVars, srvVars>>

\* ------------------------------------------------- the resolver goroutine
Bump(f, p) == [f EXCEPT ![p] = Min(@ + 1, 2)]

\* "if seen[path] { continue }"
NeverSeen(set, path) == FALSE
Seen(set, path) == path \in set

\* "seen[path] = true", ahead of the two lookups.
NotMarked(set, path) == set
MarkSeen(set, path) == set \cup {path}

\* "if info.Version == vSeen { continue }"
UpToDate(latest, vSeen) == latest = vSeen

\* The Module sent to the fetch goroutine.
JobOf(path, info) ==
    [path |-> path, version |-> info.version, time |-> info.time]

\* The resolver's step on a failed getLatestModInfo:
\* "log.Printf(...); continue".
EmitEmpty == rPc' = "send" /\ rMod' = NoMod
OnLookupError == UNCHANGED <<rPc, rMod>>

\* One iteration of "for path := range s.modPaths", up to the send.
Resolve ==
    /\ Alive
    /\ rPc = "recv"
    /\ modPaths # <<>>
    /\ LET path == Recv(modPaths).item
       IN  /\ modPaths' = Recv(modPaths).rest
           /\ IF Seen(seen, path)
              THEN /\ ev' = [op |-> "dup"]
                   /\ UNCHANGED <<seen, rPc, rMod, lookups, storeReads>>
              ELSE /\ seen' = MarkSeen(seen, path)
                   /\ storeReads' = Bump(storeReads, path)
                   /\ lookups' = Bump(lookups, path)
                   /\ \E readOk \in Outcomes(ResolverConn) :
                      \E vSeen \in latestSeenVersion(mods, path, readOk) :
                         \/ /\ ev' = [op |-> "lookup_failed",
                                      conn |-> ResolverConn]
                            /\ OnLookupError
                         \/ \E info \in Infos :
                               /\ ev' = [op |-> "resolved", path |-> path,
                                         version |-> info.version,
                                         readOk |-> readOk,
                                         conn |-> ResolverConn,
                                         emitted |->
                                            ~UpToDate(info.version, vSeen)]
                               /\ IF UpToDate(info.version, vSeen)
                                  THEN UNCHANGED <<rPc, rMod>>
                                  ELSE /\ rMod' = JobOf(path, info)
                                       /\ rPc' = "send"
    /\ UNCHANGED <<mainVars, counter, toFetch, fetchVars, storeVars,
                   scratchExists, xVars, licVars, srvVars>>

\* "s.toFetch <- mod"; blocks while the channel, of capacity cap, is full.
SendOver(cap) ==
    /\ Alive
    /\ rPc = "send"
    /\ HasRoomFor(toFetch, cap)
    /\ toFetch' = Append(toFetch, rMod)
    /\ rPc' = "recv"
    /\ rMod' = NoMod
    /\ ev' = [op |-> "send"]
    /\ UNCHANGED <<mainVars, counter, modPaths, seen, lookups, storeReads,
                   fetchVars, storeVars, scratchExists, xVars, licVars,
                   srvVars>>

Send == SendOver(ChanCap)

\* ---------------------------------------------------- the fetch goroutine
\* What the proxy answers to the archive request: no usable response, bytes
\* that are no zip archive, or the archive.
Downloads(mod) ==
    [status : {"failed", "notzip"}, archive : {<<>>}]
    \cup [status : {"zip"}, archive : {ArchiveOf(mod.path, mod.version)}]

\* downloadModule reaches the store write: the download succeeded,
\* zip.NewReader accepted the bytes and os.MkdirTemp made the job's
\* directory.
WriteAnyway(dl, scratch) == dl.status # "failed"
Extractable(dl, scratch) == dl.status = "zip" /\ scratch

\* The Module as written: mod.Readme = txt.
RecOf(mod, txt) ==
    [path |-> mod.path, version |-> mod.version, readme |-> txt,
     time |-> mod.time]

\* unique_rowid()
FreshId(rows) == Cardinality(rows) + 1

StoredVersion(rows, path) ==
    IF \E r \in rows : r.path = path
    THEN (CHOOSE r \in rows : r.path = path).version
    ELSE NoVersion

\* The fetch goroutine's step on an error of downloadModule:
\* "log.Printf(...); continue".  Nothing was written: the errors before the
\* INSERT return ahead of it, and a failed transaction is rolled back.
CountAnyway == fPc' = "count" /\ UNCHANGED <<fMod, mods>>
OnDownloadError == UNCHANGED <<fPc, fMod, mods>>

\* One iteration of "for mod := range s.toFetch", up to counter++.
Download ==
    /\ Alive
    /\ fPc = "recv"
    /\ toFetch # <<>>
    /\ toFetch' = Recv(toFetch).rest
    /\ LET mod == Recv(toFetch).item
       IN  \E dl \in Downloads(mod) :
              IF ~Extractable(dl, scratchExists)
              THEN /\ ev' = [op |-> "download_failed", dl |-> dl.status]
                   /\ OnDownloadError
              ELSE LET x == extractContent(dl.archive)
                   IN  \E ok \in Outcomes(FetchConn) :
                          IF ok
                          THEN /\ mods' = UpsertMod(mods, RecOf(mod, x.readme),
                                                    FreshId(mods))
                               /\ fPc' = "count"
                               /\ fMod' = RecOf(mod, x.readme)
                               /\ ev' = [op |-> "persist", dl |-> dl.status,
                                         scratch |-> scratchExists,
                                         conn |-> FetchConn,
                                         log |-> x.log,
                                         prev |-> StoredVersion(mods,
                                                                mod.path)]
                          ELSE /\ ev' = [op |-> "persist_failed",
                                         conn |-> FetchConn]
                               /\ OnDownloadError
    /\ UNCHANGED <<mainVars, counter, modPaths, resVars, utils,
                   scratchExists, xVars, licVars, srvVars>>

\* "counter++"; the model stops counting at MaxCounter.
Count ==
    /\ Alive
    /\ fPc = "count"
    /\ counter < MaxCounter
    /\ counter' = counter + 1
    /\ fPc' = "recv"
    /\ fMod' = NoMod
    /\ ev' = [op |-> "count"]
    /\ UNCHANGED <<mainVars, chanVars, resVars, storeVars, scratchExists,
                   xVars, licVars, srvVars>>

\* --------------------------------------------- extractContent, stepwise
\* extractContent on any archive of at most MaxEntries entries: one action
\* per iteration of its loop, then the return with the deferred
\* os.RemoveAll(tmpDir).
InitExtract ==
    /\ pc = "stopped"
    /\ since = 0 /\ nLines = 0 /\ idx = 0 /\ emptyLines = 0 /\ batchMax = 0
    /\ counter = 0 /\ modPaths = <<>> /\ toFetch = <<>>
    /\ seen = {} /\ rPc = "recv" /\ rMod = NoMod
    /\ fPc = "recv" /\ fMod = NoMod
    /\ lookups = [p \in AllPaths |-> 0]
    /\ storeReads = [p \in AllPaths |-> 0]
    /\ mods = {} /\ utils = {}
    /\ scratchExists = TRUE
    /\ ev = [op |-> "init"]
    /\ xArchive \in Archives /\ xIdx = 0 /\ xSt = ExtractInit
    /\ confidences = <<>> /\ license = NoLicense
    /\ NoServer

pipeVars == <<pc, since, nLines, idx, emptyLines, batchMax, counter,
              modPaths, toFetch, seen, rPc, rMod, fPc, fMod, mods, utils,
              scratchExists, lookups, storeReads>>

ExtractOne ==
    /\ xIdx < Len(xArchive)
    /\ xSt' = ExtractEntry(xSt, xArchive[xIdx + 1])
    /\ xIdx' = xIdx + 1
    /\ ev' = [op |-> "entry"]
    /\ UNCHANGED <<pipeVars, xArchive, licVars, srvVars>>

\* os.Remove(tmpDir): removes a directory only when it is empty.
RemoveIfEmpty(fs, dir) ==
    IF \E q \in fs.dirs \cup fs.files :
          Len(q) > Len(dir) /\ SubSeq(q, 1, Len(dir)) = dir
    THEN fs
    ELSE [fs EXCEPT !.dirs = @ \ {dir}]
\* os.RemoveAll(tmpDir)
RemoveAll(fs, dir) ==
    [dirs |-> {q \in fs.dirs :
                 ~(Len(q) >= Len(dir) /\ SubSeq(q, 1, Len(dir)) = dir)},
     files |-> {q \in fs.files :
                 ~(Len(q) >= Len(dir) /\ SubSeq(q, 1, Len(dir)) = dir)}]

ExtractReturn ==
    /\ xIdx = Len(xArchive)
    /\ ev.op # "extracted"
    /\ xSt' = [xSt EXCEPT !.fs = RemoveAll(@, TmpDir)]
    /\ ev' = [op |-> "extracted"]
    /\ UNCHANGED <<pipeVars, xArchive, xIdx, licVars, srvVars>>

NextExtract == ExtractOne \/ ExtractReturn

SpecExtract == InitExtract /\ [][NextExtract]_vars

\* ----------------------------------------------- license policy, applied
\* The policy on any classification over LicenseIds.
InitLicense ==
    /\ pc = "stopped"
    /\ since = 0 /\ nLines = 0 /\ idx = 0 /\ emptyLines = 0 /\ batchMax = 0
    /\ counter = 0 /\ modPaths = <<>> /\ toFetch = <<>>
    /\ seen = {} /\ rPc = "recv" /\ rMod = NoMod
    /\ fPc = "recv" /\ fMod = NoMod
    /\ lookups = [p \in AllPaths |-> 0]
    /\ storeReads = [p \in AllPaths |-> 0]
    /\ mods = {} /\ utils = {}
    /\ scratchExists = TRUE
    /\ ev = [op |-> "init"]
    /\ xArchive = <<>> /\ xIdx = 0 /\ xSt = ExtractInit
    /\ confidences \in ConfMaps /\ license = NoLicense
    /\ NoServer

Classify ==
    /\ ev.op = "init"
    /\ license' \in LicensePolicy(confidences)
    /\ ev' = [op |-> "license"]
    /\ UNCHANGED <<pipeVars, xVars, confidences, srvVars>>

NextLicense == Classify

SpecLicense == InitLicense /\ [][NextLicense]_vars

Next ==
    \/ Start \/ StopAtMax \/ FetchFail \/ FetchPage \/ Line \/ Unblock
    \/ Checkpoint \/ Exit \/ Resolve \/ Send \/ Download \/ Count

Spec == Init /\ [][Next]_vars

\* ================================================================ claims
\* The persisted checkpoint in ticks; -1 when there is no 'since' row.
CkptRow == CHOOSE r \in utils : r.key = "since"
CkptTicks == IF utils = {} THEN -1 ELSE Parse(CkptRow.value)
\* path lies strictly below dir.
Below(path, dir) ==
    /\ Len(path) > Len(dir)
    /\ \A i \in 1..Len(dir) : path[i] = dir[i]

\* C1: graceful drain.  When Start has returned, no path is left in the
\* path queue, no job in the fetch queue, and the resolver holds no job it
\* has not handed over.
C1_DrainedAtReturn ==
    pc = "returned" => modPaths = <<>> /\ toFetch = <<>> /\ rPc = "recv"

\* C2: dedup.  In one run the resolver makes at most one latest-version
\* lookup and at most one stored-version lookup per path.
C2_AtMostOneLookup ==
    \A p \in Paths : lookups[p] <= 1 /\ storeReads[p] <= 1
\* A path came off the queue again and was skipped.
C2_Witness == ev.op = "dup" /\ \E p \in seen : lookups[p] = 1

C4_CheckpointMonotone == [][CkptTicks' >= CkptTicks]_vars

\* C5: traversal defense.  extractContent creates or writes nothing that is
\* not strictly below the job's scratch directory; it handles every entry,
\* and skips an entry exactly when its destination is not strictly below
\* that directory.
C5_TraversalDefense ==
    /\ \A w \in xSt.writes : Below(w, TmpDir)
    /\ Len(xSt.log) = xIdx
    /\ \A k \in 1..xIdx :
          xSt.log[k] = "invalid"
             <=> ~Below(JoinClean(TmpDir, xArchive[k].name), TmpDir)
\* An entry pointing outside was skipped and the entry after it written.
C5_Witness ==
    /\ xIdx = 2
    /\ xArchive[1].name = << DotDot, DotDot, <<"etc">> >>
    /\ xSt.log[1] = "invalid"
    /\ xSt.log[2] \in {"written", "readme"}
    /\ xSt.writes # {}

\* The README text C6 describes: the contents of the matching entries with
\* valid text, in archive order, each followed by a newline.
RECURSIVE ReadmeBlob(_)
ReadmeBlob(archive) ==
    IF archive = <<>> THEN <<>>
    ELSE LET e == Head(archive)
         IN  (IF readmeRegex(e.name) /\ utf8Valid(e.content)
              THEN e.content \o <<NL>> ELSE <<>>)
             \o ReadmeBlob(Tail(archive))

\* C6: README blob.  For an archive whose entries were all unpacked, the
\* text extractContent returns is the concatenation of the contents of the
\* matching, valid entries, each followed by a newline.
C6_ReadmeIsContents ==
    (/\ ev.op = "extracted"
     /\ \A k \in 1..Len(xSt.log) :
           xSt.log[k] \in {"written", "readme", "not_utf8"})
        => xSt.readme = ReadmeBlob(xArchive)

\* An outcome of an archive entry that leaves the entry unpacked or
\* deliberately rejected.
EntryDone(o) == o \in {"written", "readme", "invalid"}

\* C7 as stated: a row is written only for a job whose download succeeded,
\* whose archive opened and all of whose entries were unpacked.
C7_RowOnlyAfterFullExtraction ==
    ev.op = "persist" =>
        /\ ev.dl = "zip"
        /\ \A k \in 1..Len(ev.log) : EntryDone(ev.log[k])
\* C7 amended: a row is written only for a job whose download succeeded,
\* whose bytes opened as a zip archive and whose scratch directory was
\* created; entries that failed to unpack do not prevent the write.
C7_RowOnlyAfterExtractReturned ==
    ev.op = "persist" => ev.dl = "zip" /\ ev.scratch
\* A row written although an entry of the archive failed to unpack.
C7_Witness ==
    /\ ev.op = "persist"
    /\ \E k \in 1..Len(ev.log) : ev.log[k] = "copy_failed"

\* C8: idempotence.  Processing a (path, version) job whose row already
\* holds that version leaves table mods as it was, with one row for the
\* path.
C8_ReprocessIsIdempotent ==
    [][(ev'.op = "persist" /\ ev'.prev = fMod'.version) =>
          /\ mods' = mods
          /\ Cardinality({r \in mods' : r.path = fMod'.path}) = 1]_vars
\* A job was processed whose version the store held already.
C8_Witness == ev.op = "persist" /\ ev.prev = fMod.version

\* C9: upsert keyed by path, latest wins.  There is at most one row per
\* path, and after an upsert the row of the path holds the version, readme
\* and time of the record written.
C9_UpsertLatestWins ==
    /\ \A r1, r2 \in mods : r1.path = r2.path => r1 = r2
    /\ ev.op = "persist" =>
          \E r \in mods :
             /\ r.path = fMod.path
             /\ r.version = fMod.version
             /\ r.readme = fMod.readme
             /\ r.time = fMod.time
\* An upsert replaced a row that held another version.
C9_Witness ==
    ev.op = "persist" /\ ev.prev \notin {NoVersion, fMod.version}

\* The version of the row whose path is exactly path ("" without one).
ExactVersion(path) ==
    IF \E r \in mods : r.path = path
    THEN (CHOOSE r \in mods : r.path = path).version
    ELSE NoVersion

\* C10: resolver decision.  For a first-seen path whose lookups succeeded,
\* a job is emitted exactly when the version stored for that path differs
\* from the latest version, and the job carries the version and time of
\* the latest-version lookup.
C10_ResolverDecision ==
    (ev.op = "resolved" /\ ev.readOk) =>
        /\ ev.emitted <=> ExactVersion(ev.path) # ev.version
        /\ ev.emitted =>
              rMod = [path |-> ev.path, version |-> ev.version,
                      time |-> TimeOf(ev.version)]

\* ------------------------------------------------ the two-entry scenario
\* One run on a store without rows, against a feed that holds two entries
\* for ScenarioPath and nothing else: the first page carries both (an older
\* version at tick 1, a newer one at tick 2), with or without an empty line
\* after the last newline; every later page is empty.  Every request and
\* every store access succeeds, and .../@latest answers the newer version.
\* The steps are the actions of the pipeline with the environment's
\* choices fixed.
ScenarioPath == PathB
ScenarioLatest == "v2"

ScenarioStart == Start /\ mods = {} /\ utils = {} /\ ev'.ok

ScenarioPage ==
    /\ FetchPage
    /\ IF since = 0 THEN nLines' \in {2, MaxLines} ELSE nLines' = 1

ScenarioLine ==
    /\ Line
    /\ ev'.op = "line"
    /\ IF since < 2
       THEN modPaths' = Append(modPaths, ScenarioPath) /\ since' = since + 1
       ELSE emptyLines' = emptyLines + 1

ScenarioCheckpoint == Checkpoint /\ ev'.ok

ScenarioResolve ==
    /\ Resolve
    /\ ev'.op # "lookup_failed"
    /\ ev'.op = "resolved" => ev'.readOk /\ ev'.version = ScenarioLatest

\* A download fails only when the scratch root is gone.
ScenarioDownload == Download /\ (ev'.op = "persist" \/ ~scratchExists)

NextScenario ==
    \/ ScenarioStart \/ ScenarioPage \/ ScenarioLine \/ ScenarioCheckpoint
    \/ Exit \/ ScenarioResolve \/ Send \/ ScenarioDownload \/ Count

SpecScenario == Init /\ [][NextScenario]_vars

\* C11: end to end.  When the run of the two-entry scenario ends, it has
\* made exactly one latest-version lookup for the path and the store holds
\* exactly one row for the path, with the newer version.
C11_ScenarioEndsWithRow ==
    [][(pc = "returned" /\ pc' = "stopped") =>
          /\ lookups[ScenarioPath] = 1
          /\ Cardinality({r \in mods : r.path = ScenarioPath}) = 1
          /\ \A r \in mods : r.path = ScenarioPath =>
                r.version = ScenarioLatest]_vars
\* The scenario as described can happen: a run ends with the one row.
C11_ScenarioCompletes ==
    /\ pc = "returned"
    /\ lookups[ScenarioPath] = 1
    /\ \E r \in mods : r.path = ScenarioPath /\ r.version = ScenarioLatest

\* C12: backpressure.  Neither queue ever holds more than ChanCap items.
\* While the process lives, a queue changes only by an item being added at
\* its tail or taken from its head; nothing is added to a full queue; and
\* the resolver gives up the job it is sending only by putting that job on
\* the fetch queue.
C12_Backpressure ==
    /\ [](Len(modPaths) <= ChanCap /\ Len(toFetch) <= ChanCap)
    /\ [][pc' # "stopped" =>
            /\ \/ modPaths' = modPaths
               \/ modPaths # <<>> /\ modPaths' = Tail(modPaths)
               \/ /\ Len(modPaths) < ChanCap
                  /\ \E p \in Paths : modPaths' = Append(modPaths, p)
            /\ \/ toFetch' = toFetch
               \/ toFetch # <<>> /\ toFetch' = Tail(toFetch)
               \/ /\ Len(toFetch) < ChanCap
                  /\ rPc = "send"
                  /\ toFetch' = Append(toFetch, rMod)
            /\ (rPc = "send" /\ rPc' # "send") =>
                  toFetch' = Append(toFetch, rMod)]_vars
\* The resolver holds a job while the fetch queue is full, and the
\* discovery loop is in a page while the path queue is full.
C12_Witness ==
    /\ rPc = "send" /\ Len(toFetch) = ChanCap
    /\ pc = "lines" /\ Len(modPaths) = ChanCap

\* C13: max-count stop.  Once the counter has reached maxModules, no path
\* is put on the path queue and no feed page is requested.
C13_NoAdmissionAfterMax ==
    [][counter >= maxModules =>
          /\ Len(modPaths') <= Len(modPaths)
          /\ ~(pc = "loop" /\ ev'.op \in {"page", "fatal"})]_vars

\* C14, the size of the batch: discovery ends after a batch exactly when
\* the batch has fewer than modIndexLimit lines that are not empty.
C14_ShortBatchEnds ==
    [][(pc = "ckpt" /\ pc' # "ckpt") =>
          (pc' = "returned" <=> nLines - emptyLines < modIndexLimit)]_vars
\* C14: exhaustion stop.  Discovery ends after a batch exactly when the
\* batch is short; and when the loop goes on from its head, it requests a
\* page exactly when the counter has not reached maxModules.
C14_NextPageIffFullAndBelowMax ==
    [][/\ (pc = "ckpt" /\ pc' # "ckpt") =>
             (pc' = "returned" <=> nLines - emptyLines < modIndexLimit)
       /\ (pc = "loop" /\ pc' # "loop") =>
             (ev'.op \in {"page", "fatal"} <=> counter < maxModules)]_vars

\* C15: feed failure is fatal.  When a page request fails the run is over
\* at once: the process is gone, nothing of the page is on the path queue,
\* and the store (checkpoint and rows) is as it was.
C15_FeedFailureEndsRun ==
    [][(pc = "loop" /\ ev'.op = "fatal") =>
          /\ pc' = "stopped"
          /\ modPaths' = <<>> /\ toFetch' = <<>>
          /\ utils' = utils /\ mods' = mods]_vars
\* A page request failed in a run that had written a checkpoint before.
C15_Witness == ev.op = "fatal" /\ pc = "stopped" /\ utils # {}

\* C16: resolution failure is isolated.  When the latest-version lookup
\* for a path fails, no job is emitted, the store is not written, the
\* discovery loop is where it was, and the resolver is back at its receive
\* with the paths behind the failed one still queued.
C16_LookupFailureIsolated ==
    [][ev'.op = "lookup_failed" =>
          /\ rPc' = "recv" /\ rMod' = NoMod
          /\ toFetch' = toFetch
          /\ mods' = mods /\ utils' = utils
          /\ pc' = pc /\ pc' # "stopped"
          /\ modPaths' = Tail(modPaths)]_vars
\* A lookup failed while discovery was in a page and a job of an earlier
\* path was waiting in the fetch queue.
C16_Witness ==
    /\ ev.op = "lookup_failed"
    /\ pc \in {"lines", "blocked"}
    /\ toFetch # <<>>

\* C17: failure isolation in the fetch stage.  When downloadModule fails
\* for a job (download, archive, scratch directory or store write), the
\* fetch goroutine is back at its receive with the job gone from the
\* queue, the counter is not incremented, table mods is unchanged, and the
\* discovery loop and the resolver are where they were.
C17_DownloadFailureIsolated ==
    [][ev'.op \in {"download_failed", "persist_failed"} =>
          /\ fPc' = "recv"
          /\ toFetch' = Tail(toFetch)
          /\ counter' = counter
          /\ mods' = mods
          /\ pc' = pc /\ pc' # "stopped" /\ rPc' = rPc]_vars
\* A job failed with rows of other jobs in the store and the next job
\* waiting in the resolver's hands.
C17_Witness ==
    /\ ev.op \in {"download_failed", "persist_failed"}
    /\ mods # {}
    /\ rPc = "send"

\* C18: feed line handling.  A step of the line loop that handles a line:
\* a blank line and a line that does not parse put nothing on the path
\* queue and leave the cursor as it is, an entry puts its path at the tail
\* of the queue; in each case the loop goes on to the next line of the
\* batch, if there is one.
C18_LineHandling ==
    [][ev'.op = "line" =>
          /\ idx' = idx + 1
          /\ pc' = IF idx' < nLines THEN "lines" ELSE "ckpt"
          /\ nLines' = nLines
          /\ ev'.kind \in {"blank", "bad"} =>
                modPaths' = modPaths /\ since' = since
          /\ ev'.kind = "blank" <=> emptyLines' # emptyLines
          /\ ev'.kind = "entry" =>
                modPaths' = Append(modPaths, ev'.path)]_vars
\* A line that does not parse was handled and the loop is at the next line
\* of the same batch.
C18_Witness ==
    /\ ev.op = "line" /\ ev.kind = "bad"
    /\ pc = "lines" /\ idx < nLines

C20_CheckpointBestEffort ==
    [][ev'.op = "ckpt" =>
          /\ since' = since
          /\ modPaths' = modPaths /\ toFetch' = toFetch
          /\ counter' = counter /\ mods' = mods
          /\ pc' = IF nLines - emptyLines < modIndexLimit
                   THEN "returned" ELSE "loop"
          /\ scratchExists' = (scratchExists /\ pc' = "loop")
          /\ utils' = IF ev'.ok THEN UpsertSince(utils, Format(since))
                      ELSE utils]_vars
\* The write failed after a full batch that moved the cursor, and the loop
\* went on with the store still holding an earlier checkpoint.
C20_Witness ==
    /\ ev.op = "ckpt" /\ ~ev.ok
    /\ pc = "loop"
    /\ ev.batchMax > 0
    /\ utils # {} /\ CkptTicks < Parse(Format(since))

\* ------------------------------------------------- a finite feed, fairly
\* Runs, one after the other on the same store, against a finite feed that
\* does not change: LiveFeed lists one index entry for each of three
\* paths, the last two with the same timestamp.  A request
\* ?since=<whole seconds>&limit=modIndexLimit is answered with the first
\* modIndexLimit entries not older than since, one per line, each line
\* ended by a newline (so bytes.Split yields an empty last line).  Every
\* request and every store access succeeds, and .../@latest answers
\* ScenarioLatest for every path.
LiveTs == MaxTs
LiveFeed ==
    <<[path |-> PathU, ts |-> 1], [path |-> PathB, ts |-> LiveTs],
      [path |-> PathC, ts |-> LiveTs]>>

LivePage(floor) ==
    LET hit == SelectSeq(LiveFeed, LAMBDA e : e.ts >= floor)
    IN  SubSeq(hit, 1, Min(Len(hit), modIndexLimit))

\* The page of the request in progress.  With this feed the cursor's
\* whole second changes only when the last entry of a page is taken, and
\* every page has the same number of entries, so the page computed from
\* the cursor is the page of the request wherever a line is read from it.
LivePageNow == LivePage(Parse(Format(since)))

LiveStart == Start /\ ev'.ok

LivePage1 ==
    /\ FetchPage
    /\ nLines' = Len(LivePageNow) + 1

\* "for _, line := range lines": the place in lines of the line the
\* iteration handles, first to last.
LastFirst == nLines - idx
LineAt == idx + 1

\* The line the loop is at is the one the response holds at that place.
LiveLineIs ==
    ev'.op = "line" =>
        IF LineAt <= Len(LivePageNow)
        THEN /\ ev'.kind = "entry"
             /\ ev'.path = LivePageNow[LineAt].path
             /\ since' = LivePageNow[LineAt].ts
        ELSE ev'.kind = "blank"

LiveLine == LineOver(AllPaths) /\ LiveLineIs
LiveUnblock == UnblockOver(AllPaths) /\ LiveLineIs

\* The steps of the discovery loop.
MainLive ==
    StopAtMax \/ LivePage1 \/ LiveLine \/ LiveUnblock \/ ScenarioCheckpoint

NextLive ==
    \/ LiveStart \/ StopAtMax \/ LivePage1 \/ LiveLine \/ LiveUnblock
    \/ ScenarioCheckpoint \/ Exit \/ ScenarioResolve \/ Send
    \/ ScenarioDownload \/ Count

\* Each goroutine that can take a step eventually takes one: the Go
\* scheduler runs every runnable goroutine, and in this scenario every
\* request is answered.  A loop that reads counter again and again
\* eventually sees the value written (strong fairness of StopAtMax).
\* Whether another run is started is left open.
SpecLive ==
    /\ Init
    /\ [][NextLive]_vars
    /\ WF_vars(MainLive) /\ SF_vars(StopAtMax)
    /\ WF_vars(ScenarioResolve) /\ WF_vars(Send)
    /\ WF_vars(ScenarioDownload) /\ WF_vars(Count)

\* C21: termination of a run.  On a finite feed, with every goroutine
\* scheduled fairly, a run that has started eventually returns from Start.
C21_StartReturns == [](Alive => <>(pc = "returned"))
\* C21, the queues: the discovery loop does not wait in a send forever.
C21_SendGoesThrough == [](pc = "blocked" => <>(pc # "blocked"))
\* A run on a store that is up to date has asked for the page it had got
\* before: it is back at the request with the cursor and the checkpoint
\* where they were, both paths seen and nothing counted.
C21_Witness ==
    /\ pc = "loop" /\ ev.op = "ckpt"
    /\ since = LiveTs /\ CkptTicks = Parse(Format(since))
    /\ seen = {PathB, PathC} /\ counter = 0
    /\ modPaths = <<>> /\ toFetch = <<>> /\ rPc = "recv" /\ fPc = "recv"

C23_PrivateConnections ==
    /\ Cardinality({MainConn, ResolverConn, FetchConn}) = 3
    /\ ev.op \in {"start", "ckpt"} => ev.conn = MainConn
    /\ ev.op \in {"resolved", "lookup_failed"} => ev.conn = ResolverConn
    /\ ev.op \in {"persist", "persist_failed"} => ev.conn = FetchConn
    /\ pc = "returned" =>
          /\ ~ConnOpen(MainConn)
          /\ ConnOpen(ResolverConn) /\ ConnOpen(FetchConn)
\* The resolver read the store with success after Start had returned and
\* closed the discovery connection.
C23_Witness ==
    /\ pc = "returned" /\ ~ConnOpen(MainConn)
    /\ ev.op = "resolved" /\ ev.readOk /\ ev.conn = ResolverConn

\* The paths that have a row in table mods.
StoredPaths(rows) == {r.path : r \in rows}

\* C24: no deletion.  No step, of any run or between runs, takes a path
\* out of table mods, and the table changes only in a step in which
\* downloadModule writes its row; the discovery loop and the resolver
\* leave it as it is.
C24_NoDeletion ==
    [][/\ StoredPaths(mods) \subseteq StoredPaths(mods')
       /\ Cardinality(mods') >= Cardinality(mods)
       /\ mods' # mods => ev'.op = "persist" /\ fPc = "recv"]_vars
\* A write replaced the version of one path while the row of the other
\* path stayed.
C24_Witness ==
    /\ ev.op = "persist" /\ ev.prev \notin {NoVersion, fMod.version}
    /\ StoredPaths(mods) = Paths

\* The classification of the example: MIT 0.95, Apache-2.0 0.91,
\* GPL-3.0 0.5.
ExampleConf ==
    [id \in LicenseIds |->
        CASE id = "MIT" -> 95 [] id = "Apache-2.0" -> 91 [] OTHER -> 50]

\* C25: license policy.  The license set is exactly the identifiers whose
\* confidence is at least the threshold; an accepted identifier whose
\* confidence is strictly higher than that of every other accepted one is
\* the primary license; a primary license is always an accepted identifier
\* of the highest confidence; with nothing accepted the primary license
\* and the set are empty; and the example gives primary MIT and set
\* {MIT, Apache-2.0}.
C25_LicensePolicy ==
    ev.op = "license" =>
        /\ license.set =
              {id \in LicenseIds : id \in DOMAIN confidences
                                   /\ confidences[id] * 10 >= 900}
        /\ \A id \in license.set :
              (\A o \in license.set \ {id} :
                  confidences[id] > confidences[o]) => license.primary = id
        /\ license.primary # "" =>
              /\ license.primary \in license.set
              /\ \A o \in license.set :
                    confidences[license.primary] >= confidences[o]
        /\ license.set = {} => license.primary = ""
        /\ confidences = ExampleConf =>
              license = [primary |-> "MIT", set |-> {"MIT", "Apache-2.0"}]
\* The example has been classified.
C25_Witness ==
    /\ ev.op = "license" /\ confidences = ExampleConf
    /\ license.primary = "MIT" /\ Cardinality(license.set) = 2

\* C26: the stored-version lookup is exact.  In every store the run can
\* meet and for every path, a lookup whose query succeeds returns the
\* version of the row with exactly that path, or "" when there is none.
C26_LookupIsExact ==
    \A p \in Paths : latestSeenVersion(mods, p, TRUE) = {ExactVersion(p)}
\* The resolver took a path for up to date on the strength of the row of
\* another path: its lookup succeeded, no job was emitted, and the row of
\* the path itself is missing or holds another version.
C26_Witness ==
    /\ ev.op = "resolved" /\ ev.readOk /\ ~ev.emitted
    /\ ExactVersion(ev.path) # ev.version
    /\ \E r \in mods : r.path # ev.path /\ r.version = ev.version

\* C27: no data race on run state.  The discovery loop is never about to
\* read counter while the fetch goroutine is about to write it.
C27_NoRaceOnCounter == ~(MainReadsCounter /\ FetchWritesCounter)
\* A read of the loop returned less than the counter held: the loop went
\* on to request a page with the counter at maxModules.
C27_Witness ==
    /\ ev.op = "page" /\ pc = "lines"
    /\ counter >= maxModules

\* C28: the scratch root outlives its jobs.  The scratch root is not
\* removed while a job is waiting for the fetch goroutine, and every call
\* of downloadModule that has got its archive finds the scratch root in
\* place.
C28_ScratchOutlivesJobs ==
    [][/\ (scratchExists /\ ~scratchExists') => toFetch = <<>>
       /\ (ev'.op \in {"download_failed", "persist"} /\ ev'.dl = "zip")
             => scratchExists]_vars
\* After Start's return a job got its archive and failed for want of the
\* scratch root.
C28_Witness ==
    /\ pc = "returned" /\ ~scratchExists
    /\ ev.op = "download_failed" /\ ev.dl = "zip"

\* C29: the checkpoint never skips work that was not enqueued.  The feed
\* delivers entries in non-decreasing timestamp order from the since of the
\* request.  While the loop is in a page, no entry it has not yet enqueued
\* is earlier than the cursor in whole seconds, which is what a checkpoint
\* written now would hold; the max-count break leaves the cursor where the
\* last enqueued entry put it; the checkpoint written after the batch is
\* that cursor in whole seconds; and a run starts from the stored
\* checkpoint or from zero, never from a later time.
C29_NoSkippedWork ==
    /\ [](pc \in {"lines", "blocked"} => Parse(Format(since)) <= Floor)
    /\ [][/\ ev'.op = "break" => since' = since /\ modPaths' = modPaths
          /\ (ev'.op = "line" /\ ev'.kind = "entry") =>
                /\ modPaths' = Append(modPaths, ev'.path)
                /\ since' >= Floor
          /\ utils' # utils =>
                /\ pc = "ckpt" /\ since' = since
                /\ CkptTicks' = Parse(Format(since))
                /\ CkptTicks' <= since
          /\ ev'.op = "start" =>
                since' = 0 \/ since' = CkptTicks]_vars
\* A batch was cut short by the max-count break with a later entry still
\* in the page, and the checkpoint written is not later than the cursor.
C29_Witness ==
    /\ ev.op = "ckpt" /\ ev.ok /\ ev.cut
    /\ since > 0 /\ ev.batchMax > since
    /\ CkptTicks <= since

\* C30: the processed count is bounded.  The counter never exceeds
\* maxModules.
C30_CounterBounded == counter <= maxModules
\* The loop has stopped at the maximum and the counter is beyond it.
C30_Witness == pc = "returned" /\ ev.op = "count" /\ counter > maxModules

\* --------------------------------------------------- the start-up cursor
\* Runs of the fair scenario's feed on a store whose table utils is in any
\* state a run can find it in: without rows, with a row of another key
\* only, or with a 'since' row whose value is a timestamp or is none.  The
\* read of the cursor and the checkpoint write succeed or fail.
StoredValues == {NotATime} \cup 0..Format(MaxTs)
OtherRow == [key |-> "schema", value |-> 0]
UtilsTables ==
    {{}, {OtherRow}}
    \cup {{[key |-> "since", value |-> v]} : v \in StoredValues}

InitCursor ==
    /\ pc = "stopped"
    /\ since = 0 /\ nLines = 0 /\ idx = 0 /\ emptyLines = 0 /\ batchMax = 0
    /\ counter = 0 /\ modPaths = <<>> /\ toFetch = <<>>
    /\ seen = {} /\ rPc = "recv" /\ rMod = NoMod
    /\ fPc = "recv" /\ fMod = NoMod
    /\ lookups = [p \in AllPaths |-> 0]
    /\ storeReads = [p \in AllPaths |-> 0]
    /\ mods = {} /\ utils \in UtilsTables
    /\ scratchExists = FALSE
    /\ ev = [op |-> "init"]
    /\ xArchive = <<>> /\ xIdx = 0 /\ xSt = ExtractInit
    /\ confidences = <<>> /\ license = NoLicense
    /\ NoServer

NextCursor ==
    \/ Start \/ StopAtMax \/ LivePage1 \/ LiveLine \/ LiveUnblock
    \/ Checkpoint \/ Exit \/ ScenarioResolve \/ Send \/ ScenarioDownload
    \/ Count

SpecCursor == InitCursor /\ [][NextCursor]_vars

\* The values of the 'since' rows of a table.
SinceValues(rows) == {r.value : r \in {q \in rows : q.key = "since"}}

\* C31: start-up cursor.  A run whose read of the checkpoint succeeds
\* starts from the time the 'since' row holds when the row's value is a
\* timestamp; a run starts from the zero time when there is no such row,
\* when the read fails and when the value is no timestamp.  After a
\* successful checkpoint write the table holds one 'since' row, with the
\* value written, and a read of it gives the time of that value.
C31_StartupCursor ==
    [][/\ ev'.op = "start" =>
             /\ (ev'.ok /\ \E v \in SinceValues(utils) : Parses(v)) =>
                    \E v \in SinceValues(utils) : since' = Parse(v)
             /\ (\/ ~ev'.ok
                 \/ SinceValues(utils) = {}
                 \/ \A v \in SinceValues(utils) : ~Parses(v)) => since' = 0
             /\ utils' = utils
       /\ (ev'.op = "ckpt" /\ ev'.ok) =>
             /\ SinceValues(utils') = {Format(since)}
             /\ getMostRecentFetchTime(utils', TRUE) = {Parse(Format(since))}
             /\ \A r \in utils : r.key # "since" => r \in utils']_vars
\* A run that follows one which stored a module has started from the time
\* of the last entries of the feed, which is what the 'since' row holds.
C31_Witness ==
    /\ ev.op = "start" /\ ev.ok /\ pc = "loop"
    /\ mods # {}
    /\ since = LiveTs /\ SinceValues(utils) = {Format(LiveTs)}

\* C32: a failed path is not retried within a run.  The resolver marks a
\* path seen in the step that makes its lookups, whether the latest-version
\* lookup fails, the path is skipped as current or a job is emitted; the
\* mark stays for the rest of the run; and a path that comes off the queue
\* marked is dropped with no lookup and no job.  A failed lookup or a
\* failed job leaves the cursor and the stored checkpoint as they are, and
\* the checkpoint written after a batch is the cursor in whole seconds
\* whatever became of the batch's paths.
C32_NoRetryInRun ==
    [][/\ pc' # "stopped" => seen \subseteq seen'
       /\ ev'.op \in {"lookup_failed", "resolved"} =>
             /\ Head(modPaths) \notin seen
             /\ Head(modPaths) \in seen'
       /\ (/\ pc' # "stopped" /\ modPaths # <<>>
           /\ modPaths' = Tail(modPaths)
           /\ Head(modPaths) \in seen) =>
             /\ ev'.op = "dup"
             /\ lookups' = lookups /\ storeReads' = storeReads
             /\ rPc' = rPc /\ rMod' = rMod /\ toFetch' = toFetch
       /\ ev'.op \in {"lookup_failed", "download_failed", "persist_failed"}
             => utils' = utils /\ since' = since /\ pc' = pc
       /\ (ev'.op = "ckpt" /\ ev'.ok) =>
             CkptTicks' = Parse(Format(since))]_vars
\* A path came off the queue a second time and was dropped; its first
\* occurrence left no row and no job (its lookup or its download failed),
\* and the checkpoint of its batch is stored.
C32_Witness ==
    /\ ev.op = "dup"
    /\ seen = {PathB} /\ lookups[PathB] = 1
    /\ mods = {} /\ toFetch = <<>> /\ rPc = "recv" /\ fPc = "recv"
    /\ counter = 0
    /\ utils # {} /\ CkptTicks = Parse(Format(since)) /\ since > 0

\* ------------------------------------------------------ the order of jobs
\* Runs against the fair scenario's feed with a fetch queue that holds
\* more than one job; lookups, downloads and store accesses succeed or
\* fail.
OrderCap == ChanCap + 1
OrderSend == SendOver(OrderCap)

NextOrder ==
    \/ Start \/ StopAtMax \/ LivePage1 \/ LiveLine \/ LiveUnblock
    \/ Checkpoint \/ Exit \/ Resolve \/ OrderSend \/ Download \/ Count

SpecOrder == Init /\ [][NextOrder]_vars

\* The place of a path in the feed, which lists each path once before the
\* paths of later entries: the order of first appearance.
FeedRank(p) == CHOOSE i \in 1..Len(LiveFeed) : LiveFeed[i].path = p
\* The paths of the jobs under way, the one furthest on first: the job the
\* fetch goroutine has just written, the jobs in the fetch queue, the job
\* the resolver is sending.
JobsUnderWay ==
    (IF fPc = "count" THEN <<fMod.path>> ELSE <<>>)
    \o [i \in 1..Len(toFetch) |-> toFetch[i].path]
    \o (IF rPc = "send" THEN <<rMod.path>> ELSE <<>>)

\* C33: job order.  The resolver takes up paths in the order of their
\* first appearance in the feed; the jobs under way are in that order, the
\* one furthest on first; a job enters the fetch queue at its tail and is
\* the resolver's; the fetch goroutine takes the job at the head, and the
\* row it writes is that job's.
C33_JobOrder ==
    /\ [](\A i, j \in 1..Len(JobsUnderWay) :
             i < j => FeedRank(JobsUnderWay[i]) < FeedRank(JobsUnderWay[j]))
    /\ [][/\ ev'.op = "resolved" =>
                \A q \in seen : FeedRank(q) < FeedRank(ev'.path)
          /\ Len(toFetch') > Len(toFetch) =>
                rPc = "send" /\ toFetch' = Append(toFetch, rMod)
          /\ (pc' # "stopped" /\ Len(toFetch') < Len(toFetch)) =>
                /\ toFetch' = Tail(toFetch)
                /\ (ev'.op = "persist" => fMod'.path = Head(toFetch).path)
          /\ ev'.op = "persist" =>
                /\ toFetch # <<>>
                /\ \E r \in mods' : r.path = Head(toFetch).path]_vars
\* The job of the first path has been written while the job of the second
\* waits in the fetch queue and the resolver holds the job of the third.
C33_Witness ==
    /\ ev.op = "persist" /\ fPc = "count"
    /\ fMod.path = LiveFeed[1].path
    /\ Len(toFetch) = 1 /\ toFetch[1].path = LiveFeed[2].path
    /\ rPc = "send" /\ rMod.path = LiveFeed[3].path

\* C34: a store read failure is treated as "not stored".  When the
\* stored-version lookup of a path finds no row or fails, and the
\* latest-version lookup succeeds, the resolver emits the job of the path
\* with the latest version and its time, whatever the store holds; the
\* resolver goes on to its send and the process lives.
C34_ReadFailureIsNotStored ==
    [][(/\ ev'.op = "resolved"
        /\ \/ ~ev'.readOk
           \/ \A r \in mods : ~Like(r.path, ev'.path)) =>
          /\ ev'.version # NoVersion => ev'.emitted
          /\ ev'.emitted =>
                /\ rPc' = "send"
                /\ rMod' = [path |-> ev'.path, version |-> ev'.version,
                            time |-> TimeOf(ev'.version)]
          /\ pc' = pc /\ pc' # "stopped"
          /\ modPaths' = Tail(modPaths) /\ mods' = mods]_vars
\* The read failed for a path whose row holds the latest version already,
\* and a job was emitted for it.
C34_Witness ==
    /\ ev.op = "resolved" /\ ~ev.readOk /\ ev.emitted
    /\ ExactVersion(ev.path) = ev.version
    /\ rPc = "send" /\ rMod.path = ev.path

\* ------------------------------------------------------------ the server
\* cmd/server/server.go: main calls NewServer and Server.Start; the
\* net/http server runs modHandler in a goroutine of its own for each
\* request to /mod/<path>.  The server reads table mods, which a scanner
\* has filled or not.
ServerTables ==
    {{}, {[id |-> 1, path |-> PathB, version |-> "v1", readme |-> <<104>>,
           time |-> 1]}}

InitServer ==
    /\ pc = "stopped"
    /\ since = 0 /\ nLines = 0 /\ idx = 0 /\ emptyLines = 0 /\ batchMax = 0
    /\ counter = 0 /\ modPaths = <<>> /\ toFetch = <<>>
    /\ seen = {} /\ rPc = "recv" /\ rMod = NoMod
    /\ fPc = "recv" /\ fMod = NoMod
    /\ lookups = [p \in AllPaths |-> 0]
    /\ storeReads = [p \in AllPaths |-> 0]
    /\ mods \in ServerTables /\ utils = {}
    /\ scratchExists = FALSE
    /\ ev = [op |-> "init"]
    /\ xArchive = <<>> /\ xIdx = 0 /\ xSt = ExtractInit
    /\ confidences = <<>> /\ license = NoLicense
    /\ NoServer

\* The server process is gone (log.Fatal, log.Fatalf).
ServerGone ==
    /\ srvPc' = "stopped" /\ srvDb' = "none"
    /\ reqs' = [i \in Reqs |-> NoReq]

\* NewServer up to its return statement: initDB() has opened the
\* connection and "defer db.Close" is registered.
NewServer ==
    /\ srvPc = "stopped"
    /\ srvPc' = "NewServer"
    /\ srvDb' = "open"
    /\ ev' = [op |-> "initDB"]
    /\ UNCHANGED <<pipeVars, xVars, licVars, reqs>>

\* initDB() fails: log.Fatalf.
NewServerFatal ==
    /\ srvPc = "stopped"
    /\ ServerGone
    /\ ev' = [op |-> "server_fatal"]
    /\ UNCHANGED <<pipeVars, xVars, licVars>>

\* What a deferred db.Close(ctx) leaves of the connection when the
\* function that deferred it returns.
DeferredClose(db) == "closed"

\* "return &Server{db: db}": the deferred function runs, then main has the
\* Server.
NewServerReturn ==
    /\ srvPc = "NewServer"
    /\ srvPc' = "main"
    /\ srvDb' = DeferredClose(srvDb)
    /\ ev' = [op |-> "NewServer"]
    /\ UNCHANGED <<pipeVars, xVars, licVars, reqs>>

\* Server.Start: the handlers are registered and ListenAndServe listens.
ServerStart ==
    /\ srvPc = "main"
    /\ srvPc' = "serving"
    /\ ev' = [op |-> "listen"]
    /\ UNCHANGED <<pipeVars, xVars, licVars, srvDb, reqs>>

\* ListenAndServe returns (it does so with an error only): log.Fatal.
ListenFatal ==
    /\ srvPc \in {"main", "serving"}
    /\ ServerGone
    /\ ev' = [op |-> "server_fatal"]
    /\ UNCHANGED <<pipeVars, xVars, licVars>>

\* modHandler, up to its query: a request for /mod/<path> has arrived.
modHandler(i) ==
    /\ srvPc = "serving"
    /\ reqs[i].pc = "idle"
    /\ \E path \in Paths :
          reqs' = [reqs EXCEPT ![i] = [pc |-> "query", path |-> path,
                                       status |-> 0]]
    /\ ev' = [op |-> "request"]
    /\ UNCHANGED <<pipeVars, xVars, licVars, srvPc, srvDb>>

\* The status modHandler answers with after s.db.QueryRow(...).Scan(...):
\* on a connection that is not open the query is an error, which is not
\* sql.ErrNoRows (500); on an open one the row gives the page (200) unless
\* the template fails (500), and no row gives 404 or, the error not being
\* the one compared with, 500.
Statuses(db, rows, path) ==
    IF db # "open" THEN {500}
    ELSE IF \E r \in rows : r.path = path THEN {200, 500}
    ELSE {404, 500}

\* modHandler's query on s.db and the response.
modQuery(i) ==
    /\ srvPc = "serving"
    /\ reqs[i].pc = "query"
    /\ \E st \in Statuses(srvDb, mods, reqs[i].path) :
          /\ reqs' = [reqs EXCEPT ![i].pc = "done", ![i].status = st]
          /\ ev' = [op |-> "query", db |-> srvDb, status |-> st]
    /\ UNCHANGED <<pipeVars, xVars, licVars, srvPc, srvDb>>

\* The handler has returned; its goroutine serves the next request.
modDone(i) ==
    /\ srvPc = "serving"
    /\ reqs[i].pc = "done"
    /\ reqs' = [reqs EXCEPT ![i] = NoReq]
    /\ ev' = [op |-> "response"]
    /\ UNCHANGED <<pipeVars, xVars, licVars, srvPc, srvDb>>

NextServer ==
    \/ NewServer \/ NewServerFatal \/ NewServerReturn \/ ServerStart
    \/ ListenFatal
    \/ \E i \in Reqs : modHandler(i) \/ modQuery(i) \/ modDone(i)

SpecServer == InitServer /\ [][NextServer]_vars

\* C35: server connection lifecycle.  Whenever a handler is at its query,
\* and whenever one has made it, the connection the Server holds is open.
C35_ConnOpenAtQuery ==
    /\ \A i \in Reqs : reqs[i].pc = "query" => srvDb = "open"
    /\ ev.op = "query" => ev.db = "open"
\* A request for a path that has a row was answered 500: the query ran on
\* the connection NewServer had closed when it returned.
C35_Witness ==
    /\ ev.op = "query" /\ ev.db = "closed" /\ ev.status = 500
    /\ \E i \in Reqs :
          /\ reqs[i].pc = "done" /\ reqs[i].status = 500
          /\ \E r \in mods : r.path = reqs[i].path

====
